---- MODULE Spec2Model ----
(***************************************************************************)
(* A model of Clarity, a Boggle solver (rjhansen/clarity).                 *)
(*                                                                         *)
(* solve(board) validates the board, lazily loads the word list into the   *)
(* file-scope set good_words, runs the recursive search make_words_from    *)
(* from every cell and returns the sorted list of the words found.         *)
(*                                                                         *)
(* A std::string is a sequence of character codes ("a" is <<97>>), so that *)
(* operator< on strings, lower_bound and mismatch are computed and not     *)
(* assumed.  Board coordinates are 0-based as in the source; at() is the   *)
(* bounds-checked access of std::vector.  The recursion of                 *)
(* make_words_from is an explicit stack of frames, each holding its own    *)
(* by-value copy of the board.                                             *)
(*                                                                         *)
(* Two revisions of solve are in the repository: the one of                *)
(* src/src/libclarity.cc (sanity_check, load_dictionary, search, sort by   *)
(* boggle_compare) and an earlier one (src/unnamed/part_000: load, then    *)
(* validate, search, plain rv.sort()).  A process is built from one of     *)
(* them; the variable revision says which.                                 *)
(***************************************************************************)
EXTENDS Integers, Sequences, FiniteSets, TLC

\* ------------------------------------------------------------------ bounds
\* Boards of the generic family have at most MaxCells cells.
MaxCells == 3
\* Words handed to boggle_score on its own have at most MaxWordLen letters.
MaxWordLen == 9

\* ----------------------------------------------------------------- strings
str_a == <<97>>
str_b == <<98>>
str_A == <<65>>
str_1 == <<49>>
str_empty == << >>
\* The sentinel make_words_from writes into a consumed cell: " ".
SPACE == <<32>>

\* std::string operator<: lexicographic, by character code.
RECURSIVE StrLess(_, _)
StrLess(s, t) ==
    IF t = << >> THEN FALSE
    ELSE IF s = << >> THEN TRUE
    ELSE IF s[1] < t[1] THEN TRUE
    ELSE IF s[1] > t[1] THEN FALSE
    ELSE StrLess(Tail(s), Tail(t))

\* regex_match(str, "^[a-z]+$")
lowercase_rx(str) ==
    /\ Len(str) > 0
    /\ \A i \in 1..Len(str) : str[i] >= 97 /\ str[i] <= 122

\* ------------------------------------------------------------ vector access
\* size() - 1 in size_t arithmetic: 0 - 1 wraps to the largest value, which
\* is above every index; SIZE_MAX stands for it.
SIZE_MAX == 2147483647
SizeMinusOne(n) == IF n > 0 THEN n - 1 ELSE SIZE_MAX

\* Whether board.at(y).at(x) is inside the vectors (otherwise at() throws
\* std::out_of_range).
InBoard(b, y, x) ==
    /\ y >= 0 /\ y < Len(b)
    /\ x >= 0 /\ x < Len(b[y + 1])

\* board.at(y).at(x), for (y, x) inside the board.
at(b, y, x) == b[y + 1][x + 1]

\* --------------------------------------------------------------- the inputs
Tiles == {str_a, str_b}

Grids(r, c) == [1..r -> [1..c -> Tiles]]

\* Every r x c board over Tiles with at most MaxCells cells.
GenericBoards ==
    UNION { IF r * c <= MaxCells THEN Grids(r, c) ELSE {} :
                r \in 1..MaxCells, c \in 1..MaxCells }

\* Boards that are rectangular and lowercase but outside the generic family:
\* 2x2 grids, one with a multi-letter tile, and 2x3 / 3x2 grids (cells that
\* are not adjacent).
WideBoards ==
    { << <<str_a, str_b>>, <<str_b, str_a>> >>,
      << <<str_b, str_a>>, <<str_b, str_b>> >>,
      << <<str_a, str_a>>, <<str_b, str_a>> >>,
      << <<str_a \o str_b, str_b>>, <<str_a, str_a>> >>,
      << <<str_a, str_b, str_a>>, <<str_b, str_b, str_a>> >>,
      << <<str_b, str_a>>, <<str_a, str_b>>, <<str_b, str_a>> >> }

\* Boards with no square at all.
NoSquareBoards ==
    { << >>, << << >> >>, << << >>, << >> >> }

\* Jagged boards and boards holding a cell that is not ^[a-z]+$.
MalformedBoards ==
    { << <<str_a>>, <<str_a, str_b>> >>,
      << <<str_a, str_b>>, <<str_a>> >>,
      << << >>, <<str_a>> >>,
      << <<str_a>>, << >> >>,
      << <<str_A>> >>,
      << <<str_a, str_1>> >>,
      << <<str_a, str_empty>> >>,
      << <<str_a>>, <<SPACE>> >>,
      << <<str_a, str_b>>, <<str_b, str_a \o str_A>> >> }

Boards == GenericBoards \cup WideBoards \cup NoSquareBoards \cup MalformedBoards

\* The word lists wordlist.txt may hold (an empty file included).
LexA == { str_a, str_a \o str_b, str_b \o str_a \o str_b,
          str_a \o str_b \o str_b \o str_a }
LexB == { str_b, str_b \o str_a, str_a \o str_a \o str_b }
Lexicons == { {}, LexA, LexB }

\* wordlist.txt: whether it can be opened, and the tokens it holds.
FileStates ==
    { [ok |-> FALSE, words |-> {}] } \cup
    { [ok |-> TRUE, words |-> L] : L \in Lexicons }

Revisions == { "libclarity", "earlier" }
Orderings == { "score", "lexicographic" }

\* ---------------------------------------------------------------- the state
VARIABLES
    revision,    \* which revision of solve the process is built from
    wordlist,    \* the backing file PKGDATADIR/wordlist.txt
    good_words,  \* the file-scope set<string> good_words
    loads,       \* monitor: the file was read into good_words "never",
                 \* "once" or "again" (more than once)
    pc,          \* "idle" (no call), "solving", or "returned" (the call is
                 \* over and its caller holds what it gave)
    board,       \* the board of the current or last call of solve
    requested,   \* the ordering the caller of that call wanted
    outcome,     \* "none", "running", "ok", "BadBoard", "NoDictionaryFound"
    result,      \* the list the last call returned
    wordset,     \* solve's local set<string> wordset
    srow, scol,  \* solve's loop variables row and col
    stack,       \* the frames of make_words_from, innermost last
    caught,      \* whether solve's catch of std::out_of_range ran in this call
    score_word,  \* the argument of a direct call of boggle_score
    score_val    \* what that call returned (-1: not called yet)

vars == << revision, wordlist, good_words, loads, pc, board, requested,
           outcome, result, wordset, srow, scol, stack, caught,
           score_word, score_val >>

\* --------------------------------------------------------------- validation
\* sanity_check(board): TRUE when it returns, FALSE when it throws BadBoard.
\* Mutant: the row-length comparison is left out.
sanity_check_no_row_test(b) ==
    /\ Len(b) # 0
    /\ \A r \in 1..Len(b) : \A c \in 1..Len(b[r]) : lowercase_rx(b[r][c])

sanity_check(b) ==
    /\ Len(b) # 0
    /\ LET first_row_size == Len(b[1])
       IN  \A r \in 1..Len(b) :
               /\ first_row_size = Len(b[r])
               /\ \A c \in 1..Len(b[r]) : lowercase_rx(b[r][c])

\* ------------------------------------------------------------ the dictionary
\* load_dictionary(): whether it throws NoDictionaryFound.
\* Mutant: a file that cannot be opened is read as an empty word list.
load_dictionary_never_throws(gw, file) == FALSE

load_dictionary_throws(gw, file) == Cardinality(gw) = 0 /\ ~file.ok

\* good_words after a load_dictionary() that returns.
load_dictionary(gw, file) == IF Cardinality(gw) = 0 THEN file.words ELSE gw

\* Whether that load_dictionary() read the file.
load_dictionary_reads(gw, file) == Cardinality(gw) = 0

\* good_words.lower_bound(s): the least element not less than s, as a
\* sequence of at most one element; << >> is good_words.cend().
lower_bound(gw, s) ==
    LET notless == { w \in gw : ~StrLess(w, s) }
    IN  IF notless = {} THEN << >>
        ELSE << CHOOSE w \in notless : \A v \in notless : ~StrLess(v, w) >>

\* mismatch(s.begin(), s.end(), t.begin(), t.end()).first, as the 1-based
\* position in s; Len(s) + 1 is s.end().
mismatch(s, t) ==
    LET n == IF Len(s) < Len(t) THEN Len(s) ELSE Len(t)
        diff == { i \in 1..n : s[i] # t[i] }
    IN  IF diff = {} THEN n + 1
        ELSE CHOOSE i \in diff : \A j \in diff : i <= j

\* --------------------------------------------------------------- the scoring
\* Mutant: the length-7 case is folded into the last one.
boggle_score_no_seven(word) ==
    IF Len(word) < 3 THEN 0
    ELSE IF Len(word) = 3 THEN 1
    ELSE IF Len(word) <= 6 THEN Len(word) - 3
    ELSE 11

boggle_score(word) ==
    IF Len(word) < 3 THEN 0
    ELSE IF Len(word) = 3 THEN 1
    ELSE IF Len(word) <= 6 THEN Len(word) - 3
    ELSE IF Len(word) = 7 THEN 5
    ELSE 11

\* Mutant: lower scores first.
boggle_compare_ascending(lhs, rhs) ==
    LET lhs_score == boggle_score(lhs)
        rhs_score == boggle_score(rhs)
    IN  IF lhs_score < rhs_score THEN TRUE
        ELSE IF lhs_score > rhs_score THEN FALSE
        ELSE StrLess(lhs, rhs)

boggle_compare(lhs, rhs) ==
    LET lhs_score == boggle_score(lhs)
        rhs_score == boggle_score(rhs)
    IN  IF lhs_score > rhs_score THEN TRUE
        ELSE IF lhs_score < rhs_score THEN FALSE
        ELSE IF StrLess(lhs, rhs) THEN TRUE
        ELSE FALSE

\* lstring rv(wordset.begin(), wordset.end()): the set in its iteration
\* order, which is ascending by operator<.
RECURSIVE set_to_list(_)
set_to_list(S) ==
    IF S = {} THEN << >>
    ELSE LET m == CHOOSE w \in S : \A v \in S : ~StrLess(v, w)
         IN  <<m>> \o set_to_list(S \ {m})

\* One element put into an ordered list before the first element it
\* precedes: the step of a stable sort.
insert_compare(seq, w) ==
    LET before == { i \in 1..Len(seq) : boggle_compare(w, seq[i]) }
        k == IF before = {} THEN Len(seq) + 1
             ELSE CHOOSE i \in before : \A j \in before : i <= j
    IN  SubSeq(seq, 1, k - 1) \o <<w>> \o SubSeq(seq, k, Len(seq))

insert_less(seq, w) ==
    LET before == { i \in 1..Len(seq) : StrLess(w, seq[i]) }
        k == IF before = {} THEN Len(seq) + 1
             ELSE CHOOSE i \in before : \A j \in before : i <= j
    IN  SubSeq(seq, 1, k - 1) \o <<w>> \o SubSeq(seq, k, Len(seq))

\* rv.sort(): ascending by operator<.
RECURSIVE list_sort(_)
list_sort(rv) ==
    IF rv = << >> THEN << >>
    ELSE insert_less(list_sort(SubSeq(rv, 1, Len(rv) - 1)), rv[Len(rv)])

\* rv.sort(boggle_compare)
RECURSIVE list_sort_compare(_)
list_sort_compare(rv) ==
    IF rv = << >> THEN << >>
    ELSE insert_compare(list_sort_compare(SubSeq(rv, 1, Len(rv) - 1)),
                        rv[Len(rv)])

\* The list solve of libclarity.cc returns for a word set.
\* Mutant: the list is sorted with the plain rv.sort().
sorted_result_plain(ws) == list_sort(set_to_list(ws))

sorted_result(ws) == list_sort_compare(set_to_list(ws))

\* The list the earlier solve returns for a word set.
sorted_result_earlier(ws) == list_sort(set_to_list(ws))

\* ---------------------------------------------------------- make_words_from
min_x(x) == IF x > 0 THEN x - 1 ELSE x
min_y(y) == IF y > 0 THEN y - 1 ELSE y
\* Mutant: the right edge of the board is not tested.
max_x_unclamped(b, x, y) == x + 1

max_x(b, x, y) == IF x < SizeMinusOne(Len(b[y + 1])) THEN x + 1 ELSE x
max_y(b, y) == IF y < SizeMinusOne(Len(b)) THEN y + 1 ELSE y

\* The two early returns: the candidate sorts after every word, or it is no
\* prefix of the word at its insertion point.
\* Mutant: a candidate that is not itself the word found is abandoned.
prune_unless_word(gw, sofar) ==
    LET lookup == lower_bound(gw, sofar)
    IN  \/ lookup = << >>
        \/ lookup[1] # sofar

prune(gw, sofar) ==
    LET lookup == lower_bound(gw, sofar)
    IN  \/ lookup = << >>
        \/ mismatch(sofar, lookup[1]) # Len(sofar) + 1

\* if (*lookup == sofar), for a candidate that was not pruned.
\* Mutant: every candidate that survives the pruning is recorded.
found_word_always(gw, sofar) == TRUE

found_word(gw, sofar) == lower_bound(gw, sofar)[1] = sofar

\* board.at(y).at(x) = " " on the frame's own copy of the board.
\* Mutant: the cell is left as it is.
MarkNothing(b, x, y) == b

MarkConsumed(b, x, y) == [b EXCEPT ![y + 1][x + 1] = SPACE]

\* A call make_words_from(b, x, y, sofar): the board is passed by value.
NewFrame(b, x, y, sofar) ==
    [board |-> b, x |-> x, y |-> y, sofar |-> sofar, wordset |-> {},
     row |-> 0, col |-> 0, st |-> "entry"]

\* Mutant: the loop variables are left where they are.
AdvanceNot(f) == f

\* ++col of the inner loop and, at its end, ++row of the outer one.
Advance(f) ==
    IF f.col + 1 <= max_x(f.board, f.x, f.y)
    THEN [f EXCEPT !.col = f.col + 1]
    ELSE [f EXCEPT !.row = f.row + 1, !.col = min_x(f.x)]

\* The innermost frame returns ws: its caller (another frame, or solve)
\* inserts the words and goes on with its loop.
ReturnTo(rest, ws) ==
    IF rest = << >>
    THEN /\ stack' = << >>
         /\ wordset' = wordset \cup ws
         /\ scol' = scol + 1
         /\ UNCHANGED << srow, caught >>
    ELSE /\ stack' = [rest EXCEPT ![Len(rest)] =
                         Advance([@ EXCEPT !.wordset = @ \cup ws])]
         /\ UNCHANGED << wordset, srow, scol, caught >>

\* at() throws std::out_of_range: every frame is unwound, solve's catch
\* swallows the exception and its loop goes on with the next cell.
Unwind ==
    /\ stack' = << >>
    /\ caught' = TRUE
    /\ scol' = scol + 1
    /\ UNCHANGED << wordset, srow >>

\* From the entry of make_words_from to the statement that marks the cell.
make_words_from_entry ==
    /\ pc = "solving"
    /\ stack # << >>
    /\ LET f == stack[Len(stack)]
           rest == SubSeq(stack, 1, Len(stack) - 1)
       IN  /\ f.st = "entry"
           /\ IF ~InBoard(f.board, f.y, f.x) THEN Unwind
              ELSE LET sofar == f.sofar \o at(f.board, f.y, f.x)
                   IN  IF prune(good_words, sofar) THEN ReturnTo(rest, {})
                       ELSE /\ stack' = Append(rest,
                                   [f EXCEPT
                                      !.sofar = sofar,
                                      !.wordset = IF found_word(good_words, sofar)
                                                  THEN {sofar} ELSE {},
                                      !.board = MarkConsumed(f.board, f.x, f.y),
                                      !.row = min_y(f.y),
                                      !.col = min_x(f.x),
                                      !.st = "loop"])
                            /\ UNCHANGED << wordset, srow, scol, caught >>
    /\ UNCHANGED << revision, wordlist, good_words, loads, pc, board,
                    requested, outcome, result, score_word, score_val >>

\* One turn of the loop over the neighbours, or the final return.
make_words_from_loop ==
    /\ pc = "solving"
    /\ stack # << >>
    /\ LET f == stack[Len(stack)]
           rest == SubSeq(stack, 1, Len(stack) - 1)
       IN  /\ f.st = "loop"
           /\ IF f.row > max_y(f.board, f.y) THEN ReturnTo(rest, f.wordset)
              ELSE IF ~InBoard(f.board, f.row, f.col) THEN Unwind
              ELSE IF at(f.board, f.row, f.col) # SPACE
                   THEN /\ stack' = Append(stack,
                               NewFrame(f.board, f.col, f.row, f.sofar))
                        /\ UNCHANGED << wordset, srow, scol, caught >>
                   ELSE /\ stack' = Append(rest, Advance(f))
                        /\ UNCHANGED << wordset, srow, scol, caught >>
    /\ UNCHANGED << revision, wordlist, good_words, loads, pc, board,
                    requested, outcome, result, score_word, score_val >>

\* --------------------------------------------------------------------- solve
\* solve leaves by an exception.
Throw(e) ==
    /\ pc' = "returned"
    /\ outcome' = e
    /\ result' = << >>
    /\ wordset' = {}
    /\ srow' = 0
    /\ scol' = 0
    /\ stack' = << >>
    /\ caught' = FALSE

\* load_dictionary() returned: solve enters its loops.
BeginSearch ==
    /\ pc' = "solving"
    /\ outcome' = "running"
    /\ result' = << >>
    /\ wordset' = {}
    /\ srow' = 0
    /\ scol' = 0
    /\ stack' = << >>
    /\ caught' = FALSE

Load ==
    /\ good_words' = load_dictionary(good_words, wordlist)
    /\ loads' = IF ~load_dictionary_reads(good_words, wordlist) THEN loads
                ELSE IF loads = "never" THEN "once" ELSE "again"

\* solve of libclarity.cc is called: sanity_check, then load_dictionary.
solve ==
    /\ pc = "idle"
    /\ revision = "libclarity"
    /\ \E b \in Boards, o \in Orderings :
          /\ board' = b
          /\ requested' = o
          /\ IF ~sanity_check(b)
             THEN Throw("BadBoard") /\ UNCHANGED << good_words, loads >>
             ELSE IF load_dictionary_throws(good_words, wordlist)
             THEN Throw("NoDictionaryFound") /\ UNCHANGED << good_words, loads >>
             ELSE Load /\ BeginSearch
    /\ UNCHANGED << revision, wordlist, score_word, score_val >>

\* The earlier solve is called: the dictionary is loaded, then the board is
\* validated by the same three tests.
solve_earlier ==
    /\ pc = "idle"
    /\ revision = "earlier"
    /\ \E b \in Boards, o \in Orderings :
          /\ board' = b
          /\ requested' = o
          /\ IF load_dictionary_throws(good_words, wordlist)
             THEN Throw("NoDictionaryFound") /\ UNCHANGED << good_words, loads >>
             ELSE IF ~sanity_check(b)
             THEN Load /\ Throw("BadBoard")
             ELSE Load /\ BeginSearch
    /\ UNCHANGED << revision, wordlist, score_word, score_val >>

\* One turn of solve's loops over the starting cells.
solve_loop ==
    /\ pc = "solving"
    /\ stack = << >>
    /\ srow < Len(board)
    /\ IF scol < Len(board[srow + 1])
       THEN /\ stack' = << NewFrame(board, scol, srow, << >>) >>
            /\ UNCHANGED << srow, scol >>
       ELSE /\ srow' = srow + 1
            /\ scol' = 0
            /\ UNCHANGED stack
    /\ UNCHANGED << revision, wordlist, good_words, loads, pc, board,
                    requested, outcome, result, wordset, caught,
                    score_word, score_val >>

Return(rv) ==
    /\ pc' = "returned"
    /\ outcome' = "ok"
    /\ result' = rv
    /\ wordset' = {}
    /\ srow' = 0
    /\ scol' = 0
    /\ UNCHANGED << revision, wordlist, good_words, loads, board, requested,
                    stack, caught, score_word, score_val >>

\* The loops are over: rv.sort(boggle_compare); return rv.
solve_return ==
    /\ pc = "solving"
    /\ stack = << >>
    /\ srow >= Len(board)
    /\ revision = "libclarity"
    /\ Return(sorted_result(wordset))

\* The loops are over in the earlier solve: rv.sort(); return rv.
solve_return_earlier ==
    /\ pc = "solving"
    /\ stack = << >>
    /\ srow >= Len(board)
    /\ revision = "earlier"
    /\ Return(sorted_result_earlier(wordset))

\* The caller of solve has printed the list, or the exception's what(): the
\* call and everything local to it are gone.
caller_continues ==
    /\ pc = "returned"
    /\ pc' = "idle"
    /\ board' = << >>
    /\ requested' = "score"
    /\ outcome' = "none"
    /\ result' = << >>
    /\ caught' = FALSE
    /\ UNCHANGED << revision, wordlist, good_words, loads, wordset, srow,
                    scol, stack, score_word, score_val >>

\* The environment: between two calls wordlist.txt is created, removed or
\* rewritten.
SetWordlist ==
    /\ pc = "idle"
    /\ \E f \in FileStates \ {wordlist} : wordlist' = f
    /\ UNCHANGED << revision, good_words, loads, pc, board, requested,
                    outcome, result, wordset, srow, scol, stack, caught,
                    score_word, score_val >>

Init ==
    /\ revision \in Revisions
    /\ wordlist \in FileStates
    /\ good_words = {}
    /\ loads = "never"
    /\ pc = "idle"
    /\ board = << >>
    /\ requested = "score"
    /\ outcome = "none"
    /\ result = << >>
    /\ wordset = {}
    /\ srow = 0
    /\ scol = 0
    /\ stack = << >>
    /\ caught = FALSE
    /\ score_word = << >>
    /\ score_val = -1

Next ==
    \/ solve
    \/ solve_earlier
    \/ solve_loop
    \/ make_words_from_entry
    \/ make_words_from_loop
    \/ solve_return
    \/ solve_return_earlier
    \/ caller_continues
    \/ SetWordlist

Spec == Init /\ [][Next]_vars

\* ------------------------------------------------- boggle_score, on its own
\* The words boggle_score is called with: every string over a, b of at most
\* MaxWordLen letters.
ScoreWords == UNION { [1..n -> {97, 98}] : n \in 0..MaxWordLen }

ScoreInit ==
    /\ revision = "libclarity"
    /\ wordlist = [ok |-> FALSE, words |-> {}]
    /\ good_words = {}
    /\ loads = "never"
    /\ pc = "idle"
    /\ board = << >>
    /\ requested = "score"
    /\ outcome = "none"
    /\ result = << >>
    /\ wordset = {}
    /\ srow = 0
    /\ scol = 0
    /\ stack = << >>
    /\ caught = FALSE
    /\ score_word \in ScoreWords
    /\ score_val = -1

\* boggle_score(score_word) is called.
call_boggle_score ==
    /\ score_val = -1
    /\ score_val' = boggle_score(score_word)
    /\ UNCHANGED << revision, wordlist, good_words, loads, pc, board,
                    requested, outcome, result, wordset, srow, scol, stack,
                    caught, score_word >>

ScoreNext == call_boggle_score

ScoreSpec == ScoreInit /\ [][ScoreNext]_vars

\* ============================================================== the claims
Range(seq) == { seq[i] : i \in 1..Len(seq) }

\* A valid board: at least one row, every row as long as the first and at
\* least one cell long, every cell ^[a-z]+$.
ValidBoard(b) ==
    /\ Len(b) >= 1
    /\ Len(b[1]) >= 1
    /\ \A r \in 1..Len(b) :
          /\ Len(b[r]) = Len(b[1])
          /\ \A c \in 1..Len(b[r]) : lowercase_rx(b[r][c])

\* A board with no square: no row, or rows without cells.
NoSquare(b) == \A r \in 1..Len(b) : Len(b[r]) = 0

\* A board with a row that differs in length from the first, or with a cell
\* that is not ^[a-z]+$.
Malformed(b) ==
    \E r \in 1..Len(b) :
        \/ Len(b[r]) # Len(b[1])
        \/ \E c \in 1..Len(b[r]) : ~lowercase_rx(b[r][c])

\* The cells <<row, col>> of a rectangular board.
Cells(b) ==
    IF Len(b) = 0 THEN {}
    ELSE (0..(Len(b) - 1)) \X (0..(Len(b[1]) - 1))

\* 8-adjacency without wraparound.
Adjacent(p, q) ==
    /\ p # q
    /\ p[1] - q[1] \in {-1, 0, 1}
    /\ p[2] - q[2] \in {-1, 0, 1}

\* The words spelled by the simple paths that go on from cell last, having
\* used the cells in used and spelled word.
RECURSIVE PathWordsFrom(_, _, _, _)
PathWordsFrom(b, last, used, word) ==
    {word} \cup
    UNION { PathWordsFrom(b, q, used \cup {q}, word \o at(b, q[1], q[2])) :
                q \in { n \in Cells(b) \ used : Adjacent(last, n) } }

\* The words spelled by the simple paths of 8-adjacent cells of the board.
PathWords(b) ==
    UNION { PathWordsFrom(b, p, {p}, at(b, p[1], p[2])) : p \in Cells(b) }

IsPrefix(s, t) == Len(s) <= Len(t) /\ SubSeq(t, 1, Len(s)) = s

\* solve has returned a list.
Done == pc = "returned" /\ outcome = "ok"

\* The Boggle score of a word of n letters, as the specification tabulates it.
ScoreByLength(n) ==
    CASE n < 3 -> 0
      [] n = 3 -> 1
      [] n >= 4 /\ n <= 6 -> n - 3
      [] n = 7 -> 5
      [] OTHER -> 11

\* C1: every word solve returns for a valid board is in the lexicon and is
\* spelled by a simple path of 8-adjacent cells of the board.
C1_Sound ==
    (Done /\ ValidBoard(board)) =>
        \A i \in 1..Len(result) :
            /\ result[i] \in good_words
            /\ result[i] \in PathWords(board)

\* C1 witness: solve returned several words, one of them over three or more
\* cells, while the lexicon holds a word the board does not spell and the
\* board spells a string the lexicon does not hold.
C1_Witness ==
    /\ Done /\ ValidBoard(board)
    /\ Len(result) >= 2
    /\ \E i \in 1..Len(result) : Len(result[i]) >= 3
    /\ good_words \ PathWords(board) # {}
    /\ PathWords(board) \ good_words # {}

\* C2: solve is complete: every lexicon word spelled by a simple path of
\* 8-adjacent cells is in the list returned; the pruning never abandons a
\* candidate that is a prefix of a lexicon word; a candidate that is a word
\* is recorded by the frame that goes on searching from it.
C2_Complete ==
    /\ (Done /\ ValidBoard(board)) =>
           \A w \in good_words \cap PathWords(board) : w \in Range(result)
    /\ \A i \in 1..Len(stack) :
           LET f == stack[i]
           IN  /\ (f.st = "entry" /\ InBoard(f.board, f.y, f.x)) =>
                      LET candidate == f.sofar \o at(f.board, f.y, f.x)
                      IN  (\E w \in good_words : IsPrefix(candidate, w))
                              => ~prune(good_words, candidate)
               /\ (f.st = "loop" /\ f.sofar \in good_words) =>
                      f.sofar \in f.wordset

\* C2 witness: the list returned holds a word and a longer word that starts
\* with it, the longer one reached through a candidate that is no word.
C2_Witness ==
    /\ Done /\ ValidBoard(board)
    /\ \E v, w \in Range(result) :
          /\ v # w
          /\ IsPrefix(v, w)
          /\ \E n \in 1..Len(w) :
                 /\ n > Len(v)
                 /\ SubSeq(w, 1, n) \notin good_words

\* C3: solve fails with BadBoard for every board without a square, be it
\* without rows or with rows that hold no cell.
C3_NoSquareRejected ==
    (pc = "returned" /\ NoSquare(board)) => outcome = "BadBoard"

\* C4: for a jagged board, or one with a cell that is not ^[a-z]+$, solve of
\* libclarity.cc fails with BadBoard, returns nothing, and make_words_from
\* is never invoked on the board.
C4_MalformedRejected ==
    (pc # "idle" /\ revision = "libclarity" /\ Malformed(board)) =>
        /\ pc = "returned"
        /\ outcome = "BadBoard"
        /\ stack = << >>
        /\ result = << >>

\* C4 witness: a malformed board was rejected with BadBoard although the
\* dictionary was neither loaded nor loadable.
C4_Witness ==
    /\ pc = "returned" /\ revision = "libclarity"
    /\ Malformed(board)
    /\ outcome = "BadBoard"
    /\ good_words = {}
    /\ ~wordlist.ok

\* C5: the list solve returns is strictly ordered and holds no word twice:
\* from libclarity.cc's solve each word scores at least as much as the next
\* and words of equal score ascend strictly; from the earlier solve the
\* words ascend strictly.
C5_StrictlyOrdered ==
    Done =>
        /\ \A i, j \in 1..Len(result) : i # j => result[i] # result[j]
        /\ \A i \in 1..(Len(result) - 1) :
              LET si == ScoreByLength(Len(result[i]))
                  sn == ScoreByLength(Len(result[i + 1]))
              IN  IF revision = "libclarity"
                  THEN \/ si > sn
                       \/ si = sn /\ StrLess(result[i], result[i + 1])
                  ELSE StrLess(result[i], result[i + 1])

\* C5 witness: a score-ordered list with a drop in score, a tie, and a word
\* that several starting cells spell.
C5_Witness ==
    /\ Done /\ revision = "libclarity"
    /\ \E i \in 1..(Len(result) - 1) :
          ScoreByLength(Len(result[i])) > ScoreByLength(Len(result[i + 1]))
    /\ \E i \in 1..(Len(result) - 1) :
          ScoreByLength(Len(result[i])) = ScoreByLength(Len(result[i + 1]))
    /\ \E p, q \in Cells(board) :
          /\ p # q
          /\ at(board, p[1], p[2]) = at(board, q[1], q[2])
          /\ at(board, p[1], p[2]) \in Range(result)

\* The list is in ascending order of operator<.
LexAscending(rv) ==
    \A i, j \in 1..Len(rv) : i < j => ~StrLess(rv[j], rv[i])

\* The list is in descending order of score, ties in ascending order.
ScoreRanked(rv) ==
    \A i, j \in 1..Len(rv) :
        i < j =>
            LET si == ScoreByLength(Len(rv[i]))
                sj == ScoreByLength(Len(rv[j]))
            IN  /\ si >= sj
                /\ si = sj => ~StrLess(rv[j], rv[i])

\* C6, as claimed: the caller selects the ordering, and solve returns the
\* list in the ordering selected.
C6_SelectedOrdering ==
    Done =>
        /\ requested = "lexicographic" => LexAscending(result)
        /\ requested = "score" => ScoreRanked(result)

\* C6, amended: the ordering is fixed by the revision of solve, whichever
\* ordering the caller wants: libclarity.cc's solve returns the score-ranked
\* list, the earlier solve the lexicographic one.
C6_OrderingFixedByRevision ==
    Done =>
        /\ revision = "libclarity" => ScoreRanked(result)
        /\ revision = "earlier" => LexAscending(result)

\* C6 witness: each solve returned a list in its own ordering to a caller
\* that wanted the other one, and the two orderings differ on that list.
C6_Witness ==
    /\ Done
    /\ ~LexAscending(result) \/ ~ScoreRanked(result)
    /\ \/ revision = "libclarity" /\ requested = "lexicographic"
       \/ revision = "earlier" /\ requested = "score"

\* C7: boggle_score returns 0 for fewer than 3 letters, 1 for 3, n - 3 for
\* 4 to 6, 5 for 7 and 11 for 8 or more, whatever the letters are.
C7_ScoreTable ==
    score_val # -1 => score_val = ScoreByLength(Len(score_word))

\* C7 witness: boggle_score was called with a word of seven letters.
C7_Witness == score_val # -1 /\ Len(score_word) = 7

\* C8: a call on a valid board with the lexicon not loaded fails with
\* NoDictionaryFound, returns no word and leaves the lexicon unloaded as long
\* as the word list cannot be opened; once it can, the call loads it and
\* goes on to return a list.
C8_DictionaryUnavailable ==
    [][ /\ (pc = "idle" /\ pc' # "idle" /\ ValidBoard(board')
            /\ good_words = {}) =>
               IF ~wordlist.ok
               THEN /\ pc' = "returned"
                    /\ outcome' = "NoDictionaryFound"
                    /\ result' = << >>
                    /\ good_words' = {}
               ELSE /\ pc' = "solving"
                    /\ outcome' = "running"
                    /\ good_words' = wordlist.words
        /\ (pc = "solving" /\ pc' = "returned") =>
               outcome' = "ok" /\ good_words' = good_words
      ]_vars

\* C8 witness: a call on a valid board failed with NoDictionaryFound.
C8_Witness ==
    /\ pc = "returned" /\ ValidBoard(board)
    /\ outcome = "NoDictionaryFound"
    /\ result = << >>
    /\ good_words = {}

\* C9: in one process the word list is read into the lexicon at most once.
C9_ReadAtMostOnce == loads # "again"

\* C10: the cells marked consumed in a frame's board are the cells of the
\* frames below it and, once the frame has marked its own cell, that cell;
\* every other cell is as in the board the caller passed to solve, which
\* holds no mark.
C10_ConsumptionScoped ==
    \A i \in 1..Len(stack) :
        LET f == stack[i]
            path == { << stack[j].y, stack[j].x >> : j \in 1..(i - 1) }
            own == IF f.st = "loop" THEN { << f.y, f.x >> } ELSE {}
        IN  /\ Len(f.board) = Len(board)
            /\ \A r \in 1..Len(board) : Len(f.board[r]) = Len(board[r])
            /\ Cardinality(path) = i - 1
            /\ \A p \in Cells(board) :
                  /\ at(board, p[1], p[2]) # SPACE
                  /\ at(f.board, p[1], p[2]) =
                        IF p \in path \cup own THEN SPACE
                        ELSE at(board, p[1], p[2])

\* C10 witness: make_words_from is entered with two cells consumed, in the
\* search from a starting cell other than the first, below a frame that has
\* already explored another neighbour.
C10_Witness ==
    /\ Len(stack) = 3
    /\ stack[3].st = "entry"
    /\ srow + scol > 0
    /\ stack[2].wordset # {}
    /\ stack[1].wordset # {}

\* C11: on a board that passed validation every cell make_words_from reads
\* or writes is inside the board: the cell it is called on, and the
\* neighbour its loops stand on; std::out_of_range is never thrown and the
\* catch in solve never runs.
C11_AccessesInside ==
    /\ ~caught
    /\ \A i \in 1..Len(stack) :
          LET f == stack[i]
          IN  /\ InBoard(board, f.y, f.x)
              /\ InBoard(f.board, f.y, f.x)
              /\ (f.st = "loop" /\ f.row <= max_y(f.board, f.y)) =>
                     /\ InBoard(f.board, f.row, f.col)
                     /\ f.row >= min_y(f.y)
                     /\ f.col >= min_x(f.x) /\ f.col <= max_x(f.board, f.x, f.y)

\* C11 witness: on a board of a single row of several cells the loops of a
\* frame called on the last cell stand on that cell, the last one of the
\* window.
C11_Witness ==
    /\ pc = "solving" /\ ~caught
    /\ Len(board) = 1 /\ Len(board[1]) >= 2
    /\ stack # << >>
    /\ LET f == stack[Len(stack)]
       IN  /\ f.st = "loop"
           /\ f.x = Len(board[1]) - 1
           /\ f.row = f.y /\ f.col = f.x

\* The cells of a frame's board that hold the mark.
Consumed(b) == { p \in Cells(b) : at(b, p[1], p[2]) = SPACE }

\* How far a call in progress has come: solve's loop variables, then for
\* every frame, outermost first, 0, 0 before its loops and 1 + row, col in
\* them.  Sequences of numbers are ordered like strings, a proper prefix
\* coming first.
RECURSIVE FramesProgress(_)
FramesProgress(st) ==
    IF st = << >> THEN << >>
    ELSE (IF st[1].st = "entry" THEN << 0, 0 >>
          ELSE << 1 + st[1].row, st[1].col >>)
         \o FramesProgress(Tail(st))

Progress == << srow, scol >> \o FramesProgress(stack)

\* A call in progress has a statement to execute next, and executing it
\* changes the state: solve is in its loops or at its return; the innermost
\* frame is at its entry, or in its loops at their end, at a cell to call
\* make_words_from on, or at a consumed cell with the loop variables to move.
CanStep ==
    IF stack = << >>
    THEN srow < Len(board) \/ revision \in Revisions
    ELSE LET f == stack[Len(stack)]
         IN  \/ f.st = "entry"
             \/ /\ f.st = "loop"
                /\ \/ f.row > max_y(f.board, f.y)
                   \/ ~InBoard(f.board, f.row, f.col)
                   \/ at(f.board, f.row, f.col) # SPACE
                   \/ Advance(f) # f

\* C12: a call of solve on a valid board runs to completion.  Every call of
\* make_words_from finds one more cell consumed than its caller did, so the
\* depth of the recursion never exceeds the number of cells (1 on a 1x1
\* board), and the loop variables stay within the board; a call in progress
\* always has a next step, every step of it either moves Progress forward
\* in an order that has no infinite ascent within these limits or returns
\* the list; and a frame whose candidate is a prefix of no lexicon word
\* returns without calling make_words_from.
C12_RunsToCompletion ==
    /\ [](/\ Len(stack) <= Cardinality(Cells(board))
          /\ \A i \in 1..Len(stack) :
                /\ Cardinality(Consumed(stack[i].board)) =
                      IF stack[i].st = "entry" THEN i - 1 ELSE i
                /\ stack[i].row \in 0..Len(board)
                /\ stack[i].col \in 0..Len(board[1])
          /\ pc = "solving" =>
                /\ srow \in 0..Len(board)
                /\ scol \in 0..Len(board[1])
                /\ CanStep)
    /\ [][ /\ pc = "solving" =>
               \/ pc' = "solving" /\ StrLess(Progress, Progress')
               \/ pc' = "returned" /\ outcome' = "ok"
           /\ (/\ pc = "solving" /\ stack # << >>
               /\ stack[Len(stack)].st = "entry"
               /\ LET f == stack[Len(stack)]
                      candidate == f.sofar \o at(f.board, f.y, f.x)
                  IN  ~ \E w \in good_words : IsPrefix(candidate, w))
              => (Len(stack') = Len(stack) - 1 /\ ~caught')
      ]_vars

\* C12 witness: the recursion is as deep as the board has cells, four or
\* more, and the innermost call has just been made.
C12_Witness ==
    /\ pc = "solving" /\ ValidBoard(board)
    /\ Len(stack) >= 4
    /\ Len(stack) = Cardinality(Cells(board))
    /\ stack[Len(stack)].st = "entry"

\* C13: a call of solve validates the board before it loads the lexicon: a
\* call with an invalid board fails with BadBoard, also when the word list
\* cannot be opened, without reading the word list and without changing
\* the lexicon.
C13_ValidateBeforeLoad ==
    [][ (pc = "idle" /\ pc' # "idle" /\ ~ValidBoard(board')) =>
            /\ pc' = "returned"
            /\ outcome' = "BadBoard"
            /\ good_words' = good_words
            /\ loads' = loads
      ]_vars

====
